---------------------------- MODULE Spec2Model ----------------------------
(***************************************************************************)
(* State-machine model of readmems (src/src/readmems.c): the command       *)
(* lookup, the telemetry loops, the actuator sequences, the IAC            *)
(* hysteresis loops and the interactive session, with the librosco calls   *)
(* (mems_connect, mems_init_link, mems_read, mems_test_actuator, ...) and   *)
(* the serial read/write calls as nondeterministic environment answers.    *)
(***************************************************************************)
EXTENDS Integers, Sequences, FiniteSets, TLC

VARIABLES
  pc,               \* position of main / interactive_mode
  argc, argv2, argv3,   \* the invocation: argument count, <command>, [read-loop-count]
  cmd_idx,          \* main: int cmd_idx
  success,          \* main: bool success
  read_loop_count,  \* main: int read_loop_count
  read_inf,         \* main: bool read_inf
  readval,          \* main: uint8_t readval
  iac_limit_count,  \* main: uint8_t iac_limit_count
  exit_status,      \* << >> while main runs, then << the value main returned >>
  connected,        \* the transport handle is open (mems_connect succeeded, not yet disconnected)
  disconnects,      \* number of mems_disconnect calls
  connectLog,       \* log: what each mems_connect call returned, in call order
  response_buffer,  \* main: uint8_t response_buffer[16384], the prefix written so far
  linked,           \* mems_init_link returned true
  acqLog,           \* log: what each mems_read / mems_read_raw call returned, in call order
  probes,           \* log: number of mems_test_actuator calls of the IAC loops
  zeroReads,        \* log: number of successful IAC probes that returned position 0
  failedAt,         \* log: index of the first failing IAC probe (0: none)
  earlierReached,   \* log: an IAC probe before the latest one returned a position >= 0xB4
  actLog,           \* log: the actuator probes and the mems_read_iac_position call, in call order
  clock,            \* seconds slept so far
  quit,             \* interactive_mode: bool quit
  stdin_rest,       \* characters of the current operator line not yet consumed by fgets
  line,             \* log: the current operator line as typed
  icmd_buf,         \* interactive_mode: the string fgets left in icmd_buf_ptr
  icmd,             \* interactive_mode: uint8_t icmd
  bytes_read,       \* interactive_mode: ssize_t bytes_read
  total_bytes_read, \* interactive_mode: ssize_t total_bytes_read
  lineWrites,       \* log: bytes handed to writeserial since the current operator line began
  lineReads,        \* log: readserial calls since the current operator line began
  collected,        \* log: bytes returned by the positive reads of the current drain
  report            \* what the last processed input made the session print

vars == << pc, argc, argv2, argv3, cmd_idx, success, read_loop_count, read_inf,
           readval, iac_limit_count, exit_status, connected, disconnects,
           connectLog,
           response_buffer, linked, acqLog, probes, zeroReads, failedAt,
           earlierReached, actLog, clock, quit, stdin_rest, line, icmd_buf, icmd,
           bytes_read, total_bytes_read, lineWrites, lineReads, collected, report >>

mainVars == << cmd_idx, success, read_loop_count, read_inf, readval,
               iac_limit_count, exit_status, connected, disconnects, connectLog,
               linked >>
argVars == << argc, argv2, argv3 >>
readLog == << acqLog >>
iacLog == << probes, zeroReads, failedAt, earlierReached >>
onoffLog == << actLog, clock >>
interVars == << quit, stdin_rest, line, icmd_buf, icmd, bytes_read,
                total_bytes_read, lineWrites, lineReads, collected, report >>

-----------------------------------------------------------------------------
(* Bounds of the model *)

\* acquisitions explored of a loop that runs forever ("inf")
MaxAcq == 4
\* probes explored of one IAC hysteresis loop
MaxProbes == 83
\* bytes the transport delivers to one interactive drain
MaxDrain == 2
\* characters before the newline of a generated operator line
MaxLineLen == 1
\* bytes short of the capacity of response_buffer at which the long drain is taken up
FloodLead == 3

-----------------------------------------------------------------------------
(* Program constants *)

MC_Read == 0
MC_Read_Raw == 1
MC_Read_IAC == 2
MC_PTC == 3
MC_FuelPump == 4
MC_IAC_Close == 5
MC_IAC_Open == 6
MC_AC == 7
MC_Coil == 8
MC_Injectors == 9
MC_Interactive == 10
MC_Num_Commands == 11

\* uint8_t response_buffer[16384]
ResponseBufferSize == 16384
\* size_t icmd_size = 8
icmd_size == 8
\* uint8_t iac_limit_count = 80
IacLimitInit == 80
\* the fully-open position 0xB4
IacOpenThreshold == 180
\* sleep(2)
DwellSeconds == 2

\* INT_MIN of the 32-bit int that holds read_loop_count
IntMin == -(2^30) - 2^30
\* INT_MAX
IntMax == (2^30 - 1) + 2^30

NL == "\n"
CR == "\r"
TAB == "\t"

commands ==
  << <<"r","e","a","d">>,
     <<"r","e","a","d","-","r","a","w">>,
     <<"r","e","a","d","-","i","a","c">>,
     <<"p","t","c">>,
     <<"f","u","e","l","p","u","m","p">>,
     <<"i","a","c","-","c","l","o","s","e">>,
     <<"i","a","c","-","o","p","e","n">>,
     <<"a","c">>,
     <<"c","o","i","l">>,
     <<"i","n","j","e","c","t","o","r","s">>,
     <<"i","n","t","e","r","a","c","t","i","v","e">> >>


-----------------------------------------------------------------------------
(* C library functions, computed as the library computes them *)

UpperCase == << "A","B","C","D","E","F","G","H","I","J","K","L","M",
                "N","O","P","Q","R","S","T","U","V","W","X","Y","Z" >>
LowerCase == << "a","b","c","d","e","f","g","h","i","j","k","l","m",
                "n","o","p","q","r","s","t","u","v","w","x","y","z" >>

\* the lower-case letter of each upper-case letter
LowerOf ==
  [ c \in { UpperCase[i] : i \in DOMAIN UpperCase } |->
      LowerCase[CHOOSE i \in DOMAIN UpperCase : UpperCase[i] = c] ]

\* tolower(3)
tolower(c) == IF c \in DOMAIN LowerOf THEN LowerOf[c] ELSE c

\* mutant of strcasecmp_eq: strncasecmp(a, b, strlen(a)) == 0
strcasecmp_eq_prefix(a, b) ==
  /\ Len(a) <= Len(b)
  /\ \A i \in 1..Len(a) : tolower(a[i]) = tolower(b[i])

\* strcasecmp(a, b) == 0
strcasecmp_eq(a, b) ==
  /\ Len(a) = Len(b)
  /\ \A i \in 1..Len(a) : tolower(a[i]) = tolower(b[i])

\* strncmp(s, p, n) == 0, for a string s held in a buffer and a literal p
\* (the comparison stops at the terminating NUL of either string)
strncmp_eq(s, p, n) ==
  LET m == IF Len(p) < n THEN Len(p) ELSE n
  IN  IF m < n
        THEN s = p
        ELSE /\ Len(s) >= m
             /\ \A i \in 1..m : s[i] = p[i]

\* isspace(3) in the C locale
isspace(c) == c \in {" ", TAB, NL, CR, "\f"}

HexDigits == << "0","1","2","3","4","5","6","7","8","9","a","b","c","d","e","f" >>

\* the value of each digit character
DigitOf ==
  [ c \in { HexDigits[i] : i \in DOMAIN HexDigits } |->
      (CHOOSE i \in DOMAIN HexDigits : HexDigits[i] = c) - 1 ]

\* the value of character c as a digit, 99 when it is none
DigitVal(c) ==
  LET l == tolower(c)
  IN  IF l \in DOMAIN DigitOf THEN DigitOf[l] ELSE 99

\* An unsigned long (64 bits) is four 16-bit limbs, least significant first.
Limb == 2^16
ULZero == << 0, 0, 0, 0 >>
ULMax == << Limb - 1, Limb - 1, Limb - 1, Limb - 1 >>

\* u * base + d as [val, over]: the low 64 bits and whether it overflowed
ULMulAdd(u, base, d) ==
  LET t1 == u[1] * base + d
      t2 == u[2] * base + (t1 \div Limb)
      t3 == u[3] * base + (t2 \div Limb)
      t4 == u[4] * base + (t3 \div Limb)
  IN  [ val |-> << t1 % Limb, t2 % Limb, t3 % Limb, t4 % Limb >>,
        over |-> (t4 \div Limb) > 0 ]

\* -u modulo 2^64
ULNeg(u) ==
  LET n1 == (Limb - 1 - u[1]) + 1
      n2 == (Limb - 1 - u[2]) + (n1 \div Limb)
      n3 == (Limb - 1 - u[3]) + (n2 \div Limb)
      n4 == (Limb - 1 - u[4]) + (n3 \div Limb)
  IN  << n1 % Limb, n2 % Limb, n3 % Limb, n4 % Limb >>

\* the digits of s from position i on, accumulated in the given base
RECURSIVE ULDigits(_, _, _, _, _)
ULDigits(s, i, base, acc, over) ==
  IF i > Len(s) \/ DigitVal(s[i]) >= base
    THEN IF over THEN [ val |-> ULMax, over |-> TRUE ]
                 ELSE [ val |-> acc, over |-> FALSE ]
    ELSE LET r == ULMulAdd(acc, base, DigitVal(s[i]))
         IN  ULDigits(s, i + 1, base, r.val, over \/ r.over)

RECURSIVE SkipSpace(_, _)
SkipSpace(s, i) ==
  IF i <= Len(s) /\ isspace(s[i]) THEN SkipSpace(s, i + 1) ELSE i

\* strtoul(s, NULL, base) for base 0 or 16: leading white space, an optional
\* sign, an optional 0x / 0 prefix, the digits; ULONG_MAX on overflow
strtoul(s, base) ==
  LET i0 == SkipSpace(s, 1)
      signed == i0 <= Len(s) /\ s[i0] \in {"+", "-"}
      neg == signed /\ s[i0] = "-"
      i1 == IF signed THEN i0 + 1 ELSE i0
      hexPrefix == /\ i1 + 2 <= Len(s)
                   /\ s[i1] = "0"
                   /\ tolower(s[i1 + 1]) = "x"
                   /\ DigitVal(s[i1 + 2]) < 16
      b == IF base = 0
             THEN IF hexPrefix THEN 16
                  ELSE IF i1 <= Len(s) /\ s[i1] = "0" THEN 8 ELSE 10
             ELSE base
      i2 == IF b = 16 /\ hexPrefix THEN i1 + 2 ELSE i1
      r == ULDigits(s, i2, b, ULZero, FALSE)
  IN  IF r.over THEN ULMax
      ELSE IF neg THEN ULNeg(r.val) ELSE r.val

\* conversion of an unsigned long to uint8_t: the low 8 bits
ToUint8(u) == u[1] % 256

\* conversion of an unsigned long to a 32-bit int: the low 32 bits, two's complement
ToInt(u) ==
  IF u[2] >= Limb \div 2
    THEN (u[2] - Limb) * Limb + u[1]
    ELSE u[2] * Limb + u[1]

\* the mathematical value of an unsigned long exceeds 0xff
ULAbove255(u) == u[1] > 255 \/ u[2] > 0 \/ u[3] > 0 \/ u[4] > 0

-----------------------------------------------------------------------------
(* Inputs *)

\* values of argv[2]
CmdArgs ==
  { commands[i] : i \in DOMAIN commands } \cup
  { <<"P","T","C">>, <<"P","t","C">>, <<"R","E","A","D">>,
    <<"R","e","a","d","-","R","a","w">>,
    <<"r","e","a","d","-">>, <<"r","e","a","d","s">>, <<"r","e","a">>,
    <<"b","o","g","u","s">>, << >> }

\* values of argv[3]
LoopArgs ==
  { <<"i","n","f">>, <<"0">>, <<"1">>, <<"2">>, <<"3">>, <<"0","x","2">>,
    <<"0","3">>, <<"x">>, <<"-","1">>,
    <<"2","1","4","7","4","8","3","6","4","8">>,
    <<"4","2","9","4","9","6","7","2","9","7">> }

\* position bytes an IAC probe can return
Positions == { 0, 16, 80, IacOpenThreshold - 1, IacOpenThreshold }

\* bytes the ECU can send
ByteVals == { 85, 170 }

\* acknowledgements mems_init_link can store in response_buffer
AckFrames == { << 85, 85, 85, 85 >> }

\* values of argv[2] that are given together with a loop count
LoopCmdArgs ==
  { <<"r","e","a","d">>, <<"r","e","a","d","-","r","a","w">>,
    <<"R","E","A","D">>, <<"p","t","c">>, <<"b","o","g","u","s">> }

\* the invocations: << argc, argv[2], argv[3] >>
Invocations ==
  { << 2, << >>, << >> >> } \cup
  { << 3, c, << >> >> : c \in CmdArgs } \cup
  { << 4, c, n >> : c \in LoopCmdArgs, n \in LoopArgs }

-----------------------------------------------------------------------------
(* main: usage, command lookup, loop count *)

\* while ((cmd_idx < MC_Num_Commands) && (strcasecmp(argv[2], commands[cmd_idx]) != 0))
RECURSIVE LookupFrom(_, _)
LookupFrom(name, idx) ==
  IF idx < MC_Num_Commands /\ ~strcasecmp_eq(name, commands[idx + 1])
    THEN LookupFrom(name, idx + 1)
    ELSE idx

\* read_inf after the argument parsing
ParseInf(ac, arg) == ac >= 4 /\ arg = <<"i","n","f">>

\* read_loop_count after the argument parsing
ParseLoopCount(ac, arg) ==
  IF ac >= 4 /\ arg # <<"i","n","f">>
    THEN ToInt(strtoul(arg, 0))
    ELSE 1

Init ==
  /\ pc = "start"
  /\ \E inv \in Invocations :
       /\ argc = inv[1]
       /\ argv2 = inv[2]
       /\ argv3 = inv[3]
  /\ cmd_idx = 0
  /\ success = FALSE
  /\ read_loop_count = 1
  /\ read_inf = FALSE
  /\ readval = 0
  /\ iac_limit_count = IacLimitInit
  /\ exit_status = << >>
  /\ connected = FALSE
  /\ disconnects = 0
  /\ connectLog = << >>
  /\ response_buffer = << >>
  /\ linked = FALSE
  /\ acqLog = << >>
  /\ probes = 0
  /\ zeroReads = 0
  /\ failedAt = 0
  /\ earlierReached = FALSE
  /\ actLog = << >>
  /\ clock = 0
  /\ quit = FALSE
  /\ stdin_rest = << >>
  /\ line = << >>
  /\ icmd_buf = << >>
  /\ icmd = 0
  /\ bytes_read = 0
  /\ total_bytes_read = 0
  /\ lineWrites = << >>
  /\ lineReads = 0
  /\ collected = << >>
  /\ report = [ kind |-> "none", bytes |-> << >> ]

\* main, lines 191-204: the usage banner
Usage ==
  /\ pc = "start"
  /\ argc < 3
  /\ exit_status' = << 0 >>
  /\ pc' = "done"
  /\ UNCHANGED << argVars, cmd_idx, success, read_loop_count, read_inf, readval,
                  iac_limit_count, connected, disconnects, connectLog, linked, response_buffer,
                  readLog, iacLog, onoffLog, interVars >>

\* main, lines 206-232: command lookup and loop-count parsing
ParseArgs ==
  /\ pc = "start"
  /\ argc >= 3
  /\ cmd_idx' = LookupFrom(argv2, 0)
  /\ IF cmd_idx' >= MC_Num_Commands
       THEN /\ exit_status' = << -1 >>
            /\ pc' = "done"
            /\ UNCHANGED << read_inf, read_loop_count >>
       ELSE /\ read_inf' = ParseInf(argc, argv3)
            /\ read_loop_count' = ParseLoopCount(argc, argv3)
            /\ pc' = "connect"
            /\ UNCHANGED exit_status
  /\ UNCHANGED << argVars, success, readval, iac_limit_count, connected,
                  disconnects, connectLog, linked, response_buffer, readLog, iacLog, onoffLog,
                  interVars >>

\* the case of the switch that main enters for a command
CasePc(idx) ==
  CASE idx = MC_Read -> "read"
    [] idx = MC_Read_Raw -> "read_raw"
    [] idx = MC_Read_IAC -> "read_iac"
    [] idx \in { MC_PTC, MC_FuelPump, MC_AC } -> "on"
    [] idx = MC_IAC_Close -> "iac_close"
    [] idx = MC_IAC_Open -> "iac_open"
    [] idx \in { MC_Coil, MC_Injectors } -> "fire"
    [] idx = MC_Interactive -> "interactive"
    [] OTHER -> "disconnect"

\* mutant of AfterConnect: mems_disconnect sits after the connect test, not inside it
AfterConnect_alwaysDisconnect(ok) == IF ok THEN "init_link" ELSE "disconnect"

\* where main goes after mems_connect: if (mems_connect(...)) { ... mems_disconnect }
\* else { error message }, then mems_cleanup
AfterConnect(ok) == IF ok THEN "init_link" ELSE "cleanup"

\* main, lines 234-243 and 376-383: mems_init, mems_connect
Connect ==
  /\ pc = "connect"
  /\ \E ok \in BOOLEAN :
       /\ connected' = ok
       /\ connectLog' = Append(connectLog, ok)
       /\ pc' = AfterConnect(ok)
  /\ UNCHANGED << argVars, cmd_idx, success, read_loop_count, read_inf, readval,
                  iac_limit_count, exit_status, disconnects, linked,
                  response_buffer, readLog, iacLog, onoffLog, interVars >>

\* mutant of AfterInitLink: the result of mems_init_link is not tested
AfterInitLink_unchecked(ok, idx) == CasePc(idx)

\* where main goes after mems_init_link: if (mems_init_link(...)) { switch (cmd_idx) ... }
\* else { error message }, then mems_disconnect
AfterInitLink(ok, idx) == IF ok THEN CasePc(idx) ELSE "disconnect"

\* main, lines 245-250 and 370-373: mems_init_link and the switch
InitLink ==
  /\ pc = "init_link"
  /\ \/ /\ \E ack \in AckFrames : response_buffer' = ack
        /\ linked' = TRUE
        /\ pc' = AfterInitLink(TRUE, cmd_idx)
     \/ /\ pc' = AfterInitLink(FALSE, cmd_idx)
        /\ UNCHANGED << response_buffer, linked >>
  /\ UNCHANGED << argVars, cmd_idx, success, read_loop_count, read_inf, readval,
                  iac_limit_count, exit_status, connected, disconnects, connectLog, readLog,
                  iacLog, onoffLog, interVars >>

\* main, line 374: mems_disconnect
Disconnect ==
  /\ pc = "disconnect"
  /\ connected' = FALSE
  /\ disconnects' = disconnects + 1
  /\ pc' = "cleanup"
  /\ UNCHANGED << argVars, cmd_idx, success, read_loop_count, read_inf, readval,
                  iac_limit_count, exit_status, connectLog, linked, response_buffer, readLog,
                  iacLog, onoffLog, interVars >>

\* main, lines 385-387: mems_cleanup; return success ? 0 : -2
Return ==
  /\ pc = "cleanup"
  /\ exit_status' = IF success THEN << 0 >> ELSE << -2 >>
  /\ pc' = "done"
  /\ UNCHANGED << argVars, cmd_idx, success, read_loop_count, read_inf, readval,
                  iac_limit_count, connected, disconnects, connectLog, linked, response_buffer,
                  readLog, iacLog, onoffLog, interVars >>

-----------------------------------------------------------------------------
(* Telemetry loops: case MC_Read, case MC_Read_Raw *)

\* mutant of ReadLoopContinues: the test written as >= 0
ReadLoopContinues_inclusive(inf, count) == inf \/ count >= 0

\* the loop test: read_inf || (read_loop_count-- > 0)
ReadLoopContinues(inf, count) == inf \/ count > 0

\* read_loop_count after the loop test: the post-decrement is evaluated only
\* when read_inf is false; decrementing INT_MIN is a signed overflow
CountAfterTest(inf, count) ==
  IF inf THEN { count }
  ELSE IF count = IntMin THEN { IntMin, IntMax }
  ELSE { count - 1 }

\* mutant of SuccessAfterRead: success = mems_read(...)
SuccessAfterRead_last(was, ok) == ok

\* if (mems_read(...)) { ...; success = true; }
SuccessAfterRead(was, ok) == was \/ ok

\* one evaluation of the loop test and, when it holds, one pass of the body
TelemetryIter(label) ==
  /\ pc = label
  /\ read_loop_count' \in CountAfterTest(read_inf, read_loop_count)
  /\ IF ReadLoopContinues(read_inf, read_loop_count)
       THEN /\ read_inf => Len(acqLog) < MaxAcq
            /\ \E ok \in BOOLEAN :
                 /\ success' = SuccessAfterRead(success, ok)
                 /\ acqLog' = Append(acqLog, ok)
            /\ pc' = label
       ELSE /\ pc' = "disconnect"
            /\ UNCHANGED << success, readLog >>
  /\ UNCHANGED << argVars, cmd_idx, read_inf, readval, iac_limit_count,
                  exit_status, connected, disconnects, connectLog, linked, response_buffer, iacLog,
                  onoffLog, interVars >>

\* main, lines 252-268
ReadIter == TelemetryIter("read")

\* main, lines 270-294
ReadRawIter == TelemetryIter("read_raw")

\* main, lines 296-302: case MC_Read_IAC
ReadIAC ==
  /\ pc = "read_iac"
  /\ \/ /\ \E pos \in Positions : readval' = pos
        /\ success' = TRUE
        /\ actLog' = Append(actLog, [ op |-> "read_iac", ok |-> TRUE, at |-> clock ])
     \/ /\ actLog' = Append(actLog, [ op |-> "read_iac", ok |-> FALSE, at |-> clock ])
        /\ UNCHANGED << readval, success >>
  /\ pc' = "disconnect"
  /\ UNCHANGED << argVars, cmd_idx, read_loop_count, read_inf, iac_limit_count,
                  exit_status, connected, disconnects, connectLog, linked,
                  response_buffer, readLog, iacLog, clock, interVars >>

-----------------------------------------------------------------------------
(* Actuator sequencer *)

\* mutant of AfterOn: the result of the "on" probe is not tested
AfterOn_unchecked(ok) == "dwell"

\* where main goes after the "on" probe: if (mems_test_actuator(on)) { sleep(2); ... }
AfterOn(ok) == IF ok THEN "dwell" ELSE "disconnect"

\* main, lines 305, 313, 346: the "on" probe of PTC, fuel pump, A/C
OnProbe ==
  /\ pc = "on"
  /\ \E ok \in BOOLEAN :
       /\ actLog' = Append(actLog, [ op |-> "on", ok |-> ok, at |-> clock ])
       /\ pc' = AfterOn(ok)
  /\ UNCHANGED << argVars, mainVars, response_buffer, readLog, iacLog, clock,
                  interVars >>

\* main, lines 307, 315, 348: sleep(2)
Dwell ==
  /\ pc = "dwell"
  /\ clock' = clock + DwellSeconds
  /\ pc' = "off"
  /\ UNCHANGED << argVars, mainVars, response_buffer, readLog, iacLog, actLog,
                  interVars >>

\* main, lines 308, 316, 349: success = mems_test_actuator(off)
OffProbe ==
  /\ pc = "off"
  /\ \E ok \in BOOLEAN :
       /\ actLog' = Append(actLog, [ op |-> "off", ok |-> ok, at |-> clock ])
       /\ success' = ok
  /\ pc' = "disconnect"
  /\ UNCHANGED << argVars, cmd_idx, read_loop_count, read_inf, readval,
                  iac_limit_count, exit_status, connected, disconnects, connectLog, linked,
                  response_buffer, readLog, iacLog, clock, interVars >>

\* main, lines 353-359: case MC_Coil, case MC_Injectors
FireProbe ==
  /\ pc = "fire"
  /\ \E ok \in BOOLEAN :
       /\ actLog' = Append(actLog, [ op |-> "fire", ok |-> ok, at |-> clock ])
       /\ success' = ok
  /\ pc' = "disconnect"
  /\ UNCHANGED << argVars, cmd_idx, read_loop_count, read_inf, readval,
                  iac_limit_count, exit_status, connected, disconnects, connectLog, linked,
                  response_buffer, readLog, iacLog, clock, interVars >>

\* answers of mems_test_actuator for an IAC move: failure, or success with a position
IacAnswers ==
  { [ ok |-> FALSE, pos |-> 0 ] } \cup { [ ok |-> TRUE, pos |-> p ] : p \in Positions }

\* mutant of BudgetAfter: if (success) { iac_limit_count -= 1; }
BudgetAfter_anySuccess(ok, rv, count) ==
  IF ok THEN (count - 1) % 256 ELSE count

\* if (success && (readval == 0x00)) { iac_limit_count -= 1; }   (uint8_t)
BudgetAfter(ok, rv, count) ==
  IF ok /\ rv = 0 THEN (count - 1) % 256 ELSE count

\* mutant of CloseContinues: while (iac_limit_count)
CloseContinues_ignoresFailure(ok, count) == count # 0

\* while (success && iac_limit_count)
CloseContinues(ok, count) == ok /\ count # 0

\* mutant of OpenContinues: while (success && (readval <= 0xB4))
OpenContinues_inclusive(ok, rv) == ok /\ rv <= IacOpenThreshold

\* while (success && (readval < 0xB4))
OpenContinues(ok, rv) == ok /\ rv < IacOpenThreshold

\* the probe log after one IAC probe
IacLogAfter(a) ==
  /\ probes' = probes + 1
  /\ zeroReads' = IF a.ok /\ a.pos = 0 THEN zeroReads + 1 ELSE zeroReads
  /\ failedAt' = IF ~a.ok /\ failedAt = 0 THEN probes + 1 ELSE failedAt
  /\ earlierReached' = (earlierReached \/ (success /\ readval >= IacOpenThreshold))

\* main, lines 320-333: one pass of the do-while of case MC_IAC_Close, the
\* probe answering a
ClosePass(a) ==
  /\ pc = "iac_close"
  /\ success' = a.ok
  /\ readval' = IF a.ok THEN a.pos ELSE readval
  /\ iac_limit_count' = BudgetAfter(a.ok, readval', iac_limit_count)
  /\ pc' = IF CloseContinues(success', iac_limit_count')
             THEN "iac_close" ELSE "disconnect"
  /\ UNCHANGED << argVars, cmd_idx, read_loop_count, read_inf, exit_status,
                  connected, disconnects, connectLog, linked, response_buffer,
                  readLog, onoffLog, interVars >>

\* main, lines 335-343: one pass of the do-while of case MC_IAC_Open, the
\* probe answering a
OpenPass(a) ==
  /\ pc = "iac_open"
  /\ success' = a.ok
  /\ readval' = IF a.ok THEN a.pos ELSE readval
  /\ pc' = IF OpenContinues(success', readval')
             THEN "iac_open" ELSE "disconnect"
  /\ UNCHANGED << argVars, cmd_idx, read_loop_count, read_inf, iac_limit_count,
                  exit_status, connected, disconnects, connectLog, linked,
                  response_buffer, readLog, onoffLog, interVars >>

\* the close loop, its probes logged, followed for MaxProbes probes
CloseIter ==
  /\ probes < MaxProbes
  /\ \E a \in IacAnswers : ClosePass(a) /\ IacLogAfter(a)

\* the open loop, its probes logged, followed for MaxProbes probes
OpenIter ==
  /\ probes < MaxProbes
  /\ \E a \in IacAnswers : OpenPass(a) /\ IacLogAfter(a)

-----------------------------------------------------------------------------
(* Interactive session: interactive_mode *)

\* characters of the generated operator lines
LineChars == { "f", " ", CR }

\* operator lines, each ended by its newline
GenLines ==
  { l \o << NL >> : l \in UNION { [ 1..k -> LineChars ] : k \in 0..MaxLineLen } }

ExtraLines ==
  { <<"1","0","0",NL>>, <<"0","x","1","f",NL>>, <<"1","2",NL>>,
    <<"f",CR,NL>>, <<" ","1","f",NL>>,
    <<"q",NL>>, <<"q","u","i","t",NL>>, <<"q","u","i","e","t",NL>>,
    <<"Q",NL>>, <<TAB,NL>>, <<"z",NL>>,
    <<"0","0","0","0","0","0","1","2",NL>> }

Lines == GenLines \cup ExtraLines

\* values write(2) can return for one byte: written, nothing written, error
WriteResults == << 1, 0, -1 >>

\* mutant of WriteOk: if (writeserial(info, &icmd, 1) >= 0)
WriteOk_notNegative(w) == w >= 0

\* if (writeserial(info, &icmd, 1) == 1)
WriteOk(w) == w = 1

\* values readserial can return for one byte
ReadResults == { -1, 0, 1 }

\* the terminating NUL of a C string
NUL == ""

\* s[i] of a NUL-terminated C string, i counted from 0
CharAt(s, i) == IF i < Len(s) THEN s[i + 1] ELSE NUL

\* the index of the first newline of s, 0 when it has none
RECURSIVE NewlineAt(_, _)
NewlineAt(s, i) ==
  IF i > Len(s) THEN 0
  ELSE IF s[i] = NL THEN i ELSE NewlineAt(s, i + 1)

\* fgets(buf, size, stdin): at most size - 1 characters, up to and including
\* the first newline; the number of characters taken from the input
FgetsLen(input, size) ==
  LET nl == NewlineAt(input, 1)
      most == IF Len(input) < size - 1 THEN Len(input) ELSE size - 1
  IN  IF nl # 0 /\ nl <= most THEN nl ELSE most

\* (strncmp(buf, "q", 1) == 0) || (strncmp(buf, "quit", 4) == 0)
IsQuitCmd(buf) ==
  strncmp_eq(buf, <<"q">>, 1) \/ strncmp_eq(buf, <<"q","u","i","t">>, 4)

\* icmd_buf_ptr[0] != '\n' && icmd_buf_ptr[1] != '\r'
IsCommandLine(buf) == CharAt(buf, 0) # NL /\ CharAt(buf, 1) # CR

\* icmd = strtoul(icmd_buf_ptr, NULL, 16), stored in a uint8_t
ParseIcmd(buf) == ToUint8(strtoul(buf, 16))

\* (icmd >= 0) && (icmd <= 0xff)
IcmdInRange(v) == v >= 0 /\ v <= 255

\* the buffer after a read stored byte b at offset off
StoreAt(buf, off, b) ==
  IF off < Len(buf) THEN [ buf EXCEPT ![off + 1] = b ] ELSE Append(buf, b)

\* total_bytes_read += bytes_read
TotalAfter(total, br) == total + br

\* while (bytes_read > 0)
DrainContinues(br) == br > 0

\* if (total_bytes_read > 0) printbuf(response_buffer, total_bytes_read) else "No response"
DrainReport(buf, total) ==
  IF total > 0
    THEN [ kind |-> "dump", bytes |-> SubSeq(buf, 1, total) ]
    ELSE [ kind |-> "no_response", bytes |-> << >> ]

Said(kind) == [ kind |-> kind, bytes |-> << >> ]

\* interactive_mode, lines 106-108 and 159-162: the command buffer allocation
InteractiveStart ==
  /\ pc = "interactive"
  /\ \/ /\ pc' = "prompt"
        /\ report' = Said("banner")
     \/ /\ pc' = "i_return"
        /\ report' = Said("alloc_error")
  /\ UNCHANGED << argVars, mainVars, response_buffer, readLog, iacLog, onoffLog,
                  quit, stdin_rest, line, icmd_buf, icmd, bytes_read,
                  total_bytes_read, lineWrites, lineReads, collected >>

\* interactive_mode, lines 111-154: the loop body for the string fgets returned,
\* up to and including the writeserial call; log is the write log of the
\* operator line the string belongs to
Body(buf, log) ==
  /\ icmd_buf' = buf
  /\ IF IsQuitCmd(buf)
       THEN /\ quit' = TRUE
            /\ report' = Said("quit")
            /\ pc' = "prompt"
            /\ lineWrites' = log
            /\ UNCHANGED << icmd, bytes_read, total_bytes_read, collected >>
       ELSE IF IsCommandLine(buf)
         THEN /\ icmd' = ParseIcmd(buf)
              /\ UNCHANGED quit
              /\ IF IcmdInRange(icmd')
                   THEN \E k \in DOMAIN WriteResults :
                          LET w == WriteResults[k]
                          IN  /\ lineWrites' = Append(log, [ byte |-> icmd', n |-> w ])
                              /\ IF WriteOk(w)
                                   THEN /\ bytes_read' = 0
                                        /\ total_bytes_read' = 0
                                        /\ collected' = << >>
                                        /\ report' = Said("none")
                                        /\ pc' = "drain"
                                   ELSE /\ report' = Said("write_error")
                                        /\ pc' = "prompt"
                                        /\ UNCHANGED << bytes_read, total_bytes_read,
                                                        collected >>
                   ELSE /\ report' = Said("range_error")
                        /\ pc' = "prompt"
                        /\ lineWrites' = log
                        /\ UNCHANGED << bytes_read, total_bytes_read, collected >>
         ELSE /\ report' = Said("prompt")
              /\ pc' = "prompt"
              /\ lineWrites' = log
              /\ UNCHANGED << quit, icmd, bytes_read, total_bytes_read, collected >>

\* interactive_mode, lines 109-155: the loop test (!quit && fgets(...) != NULL)
\* and the body; the operator types the next line, one of lines, when the
\* previous one is used up, or ends the input
CommandFrom(lines) ==
  /\ pc = "prompt"
  /\ IF quit
       THEN /\ pc' = "i_return"
            /\ UNCHANGED interVars
       ELSE IF stdin_rest # << >>
         THEN LET n == FgetsLen(stdin_rest, icmd_size)
              IN  /\ stdin_rest' = SubSeq(stdin_rest, n + 1, Len(stdin_rest))
                  /\ Body(SubSeq(stdin_rest, 1, n), lineWrites)
                  /\ UNCHANGED << line, lineReads >>
         ELSE \/ \E l \in lines :
                   LET n == FgetsLen(l, icmd_size)
                   IN  /\ line' = l
                       /\ stdin_rest' = SubSeq(l, n + 1, Len(l))
                       /\ lineReads' = 0
                       /\ Body(SubSeq(l, 1, n), << >>)
              \/ /\ pc' = "i_return"
                 /\ UNCHANGED interVars
  /\ UNCHANGED << argVars, mainVars, response_buffer, readLog, iacLog, onoffLog >>

\* the loop of interactive_mode with an operator who types any of Lines
Command == CommandFrom(Lines)

\* interactive_mode, lines 125-138: one pass of the drain loop, and what is
\* printed when it ends; the transport has a byte to deliver only when more holds
DrainPass(more) ==
  /\ pc = "drain"
  /\ \E r \in ReadResults :
       /\ r > 0 => more
       /\ IF r > 0
            THEN \E b \in ByteVals :
                   /\ response_buffer' = StoreAt(response_buffer, total_bytes_read, b)
                   /\ collected' = Append(collected, b)
            ELSE UNCHANGED << response_buffer, collected >>
       /\ bytes_read' = r
       /\ total_bytes_read' = TotalAfter(total_bytes_read, r)
       /\ lineReads' = lineReads + 1
       /\ IF DrainContinues(bytes_read')
            THEN /\ pc' = "drain"
                 /\ UNCHANGED report
            ELSE /\ pc' = "prompt"
                 /\ report' = DrainReport(response_buffer', total_bytes_read')
  /\ UNCHANGED << argVars, mainVars, readLog, iacLog, onoffLog, quit, stdin_rest,
                  line, icmd_buf, icmd, lineWrites >>

\* the drain loop with a transport that delivers at most MaxDrain bytes per command
DrainRead == DrainPass(Len(collected) < MaxDrain)

\* interactive_mode, lines 157-163, and main, line 362: free, and the function
\* ends without a return statement, so the bool that main stores is indeterminate
InteractiveReturn ==
  /\ pc = "i_return"
  /\ success' \in BOOLEAN
  /\ pc' = "disconnect"
  /\ UNCHANGED << argVars, cmd_idx, read_loop_count, read_inf, readval,
                  iac_limit_count, exit_status, connected, disconnects, connectLog, linked,
                  response_buffer, readLog, iacLog, onoffLog, interVars >>

-----------------------------------------------------------------------------
(* The program *)

Next ==
  \/ Usage
  \/ ParseArgs
  \/ Connect
  \/ InitLink
  \/ Disconnect
  \/ Return
  \/ ReadIter
  \/ ReadRawIter
  \/ ReadIAC
  \/ OnProbe
  \/ Dwell
  \/ OffProbe
  \/ FireProbe
  \/ CloseIter
  \/ OpenIter
  \/ InteractiveStart
  \/ Command
  \/ DrainRead
  \/ InteractiveReturn

Spec == Init /\ [][Next]_vars

-----------------------------------------------------------------------------
(* The interactive session during a long response: the drain of the command
   byte 0x0f, taken up after the transport has delivered all but FloodLead of
   the bytes that response_buffer can hold; the operator then ends the input *)

\* the bytes stored so far by the long drain
Flooded == [ i \in 1..(ResponseBufferSize - FloodLead) |-> 85 ]

FloodInit ==
  /\ pc = "drain"
  /\ argc = 3
  /\ argv2 = commands[MC_Interactive + 1]
  /\ argv3 = << >>
  /\ cmd_idx = MC_Interactive
  /\ success = FALSE
  /\ read_loop_count = 1
  /\ read_inf = FALSE
  /\ readval = 0
  /\ iac_limit_count = IacLimitInit
  /\ exit_status = << >>
  /\ connected = TRUE
  /\ disconnects = 0
  /\ connectLog = << TRUE >>
  /\ response_buffer = Flooded
  /\ linked = TRUE
  /\ acqLog = << >>
  /\ probes = 0
  /\ zeroReads = 0
  /\ failedAt = 0
  /\ earlierReached = FALSE
  /\ actLog = << >>
  /\ clock = 0
  /\ quit = FALSE
  /\ stdin_rest = << >>
  /\ line = << "f", NL >>
  /\ icmd_buf = << "f", NL >>
  /\ icmd = 15
  /\ bytes_read = 1
  /\ total_bytes_read = Len(Flooded)
  /\ lineWrites = << [ byte |-> 15, n |-> 1 ] >>
  /\ lineReads = Len(Flooded)
  /\ collected = Flooded
  /\ report = Said("none")

\* the drain loop with a transport that keeps delivering; followed up to the
\* first offset that lies outside response_buffer
FloodDrainRead == DrainPass(total_bytes_read < ResponseBufferSize)

\* the loop of interactive_mode with an operator who ends the input
FloodCommand == CommandFrom({ })

FloodNext ==
  \/ FloodDrainRead
  \/ FloodCommand
  \/ InteractiveReturn
  \/ Disconnect
  \/ Return

SpecFlood == FloodInit /\ [][FloodNext]_vars

-----------------------------------------------------------------------------
(* The IAC moves followed without end: the probes are not logged, so that a
   stream of probe answers of any length is a behaviour of the model; every
   call returns, so main takes its next step whenever it has one *)

\* readmems <device> iac-close, readmems <device> iac-open
IacInit ==
  /\ Init
  /\ argc = 3
  /\ argv2 \in { commands[MC_IAC_Close + 1], commands[MC_IAC_Open + 1] }

\* the close loop, unlogged
CloseIterUnlogged ==
  \E a \in IacAnswers : ClosePass(a) /\ UNCHANGED iacLog

\* the open loop, unlogged
OpenIterUnlogged ==
  \E a \in IacAnswers : OpenPass(a) /\ UNCHANGED iacLog

IacNext ==
  \/ ParseArgs
  \/ Connect
  \/ InitLink
  \/ CloseIterUnlogged
  \/ OpenIterUnlogged
  \/ Disconnect
  \/ Return

SpecIac == IacInit /\ [][IacNext]_vars /\ WF_vars(IacNext)

-----------------------------------------------------------------------------
(* Properties *)

\* main has left the switch
Exited == pc \in { "disconnect", "cleanup", "done" }

\* the command of the run, once the handshake has succeeded
Running(cmds) == linked /\ cmd_idx \in cmds

\* C1 (as claimed): in a close run where every probe succeeded and returned
\* position 0, the loop stops after 81 probes (80 after the first zero reading)
\* and the run reports success.
C1_CloseAllZero81 ==
  ( /\ Running({ MC_IAC_Close })
    /\ Exited
    /\ failedAt = 0
    /\ zeroReads = probes )
  => ( probes = IacLimitInit + 1 /\ success )

\* C2: in the close and open loops the first failing probe is the last probe
\* issued: once a probe has failed the loop has been left, no later probe was
\* made, and the run reports failure (exit status -2).
C2_FirstFailureIsLast ==
  ( /\ Running({ MC_IAC_Close, MC_IAC_Open })
    /\ failedAt # 0 )
  => ( /\ probes = failedAt
       /\ Exited
       /\ ~success
       /\ pc = "done" => exit_status = << -2 >> )

\* C2 witness: a close run whose first five probes read 0 and whose sixth fails
C2_Witness ==
  /\ Running({ MC_IAC_Close })
  /\ pc = "done"
  /\ failedAt = 6
  /\ probes = 6
  /\ zeroReads = 5
  /\ exit_status = << -2 >>

\* C3: in an open run of successful probes the loop has been left exactly when
\* the latest probe returned a position >= 0xB4; no earlier probe returned
\* one, and the run then reports success.
C3_OpenStopsAtThreshold ==
  ( /\ Running({ MC_IAC_Open })
    /\ probes > 0
    /\ failedAt = 0 )
  => ( /\ ~earlierReached
       /\ Exited <=> readval >= IacOpenThreshold
       /\ Exited => success
       /\ pc = "done" => exit_status = << 0 >> )

\* C3 witness: an open run that stopped with success at its third probe, the
\* first to return 0xB4
C3_Witness ==
  /\ Running({ MC_IAC_Open })
  /\ pc = "done"
  /\ probes = 3
  /\ failedAt = 0
  /\ zeroReads = 0
  /\ ~earlierReached
  /\ readval = IacOpenThreshold
  /\ exit_status = << 0 >>

\* C4: in an on/off actuator test "off" is probed only as the second probe,
\* after "on" succeeded and 2 seconds passed; when "on" fails nothing follows
\* it and the run fails; the run succeeds exactly when both probes succeeded.
C4_OnThenOff ==
  Running({ MC_PTC, MC_FuelPump, MC_AC })
  => ( /\ \A i \in DOMAIN actLog :
            actLog[i].op = "off"
            => ( /\ i = 2
                 /\ actLog[1].op = "on"
                 /\ actLog[1].ok
                 /\ actLog[2].at >= actLog[1].at + DwellSeconds )
       /\ ( Len(actLog) >= 1 /\ ~actLog[1].ok )
            => ( Len(actLog) = 1 /\ Exited /\ ~success )
       /\ Exited
            => ( success <=> ( /\ Len(actLog) = 2
                               /\ actLog[1].ok
                               /\ actLog[2].ok ) )
       /\ pc = "done" => exit_status = IF success THEN << 0 >> ELSE << -2 >> )

\* C4 witness: an on/off run whose "on" probe failed
C4_Witness ==
  /\ Running({ MC_PTC, MC_FuelPump, MC_AC })
  /\ pc = "done"
  /\ Len(actLog) = 1
  /\ actLog[1].op = "on"
  /\ ~actLog[1].ok
  /\ exit_status = << -2 >>

\* the telemetry loop runs with a count N >= 0 and not forever
CountedRead ==
  /\ Running({ MC_Read, MC_Read_Raw })
  /\ ~read_inf
  /\ ParseLoopCount(argc, argv3) >= 0

\* C5: a telemetry loop with count N >= 0 has made exactly N acquisition
\* attempts when it ends, whatever each attempt returned; inside the loop every
\* attempt made has consumed one unit of the counter.
C5_ExactlyNAttempts ==
  CountedRead
  => ( /\ pc \in { "read", "read_raw" }
            => Len(acqLog) + read_loop_count = ParseLoopCount(argc, argv3)
       /\ Exited => Len(acqLog) = ParseLoopCount(argc, argv3) )

\* C5 witness: a run with count 3 in which all three acquisitions failed
C5_Witness ==
  /\ CountedRead
  /\ pc = "done"
  /\ ParseLoopCount(argc, argv3) = 3
  /\ acqLog = << FALSE, FALSE, FALSE >>

\* C6: in a telemetry run the success flag is true exactly when some
\* acquisition so far returned data, and the exit status follows it.
C6_SuccessIffAcquired ==
  Running({ MC_Read, MC_Read_Raw })
  => ( /\ success <=> \E i \in DOMAIN acqLog : acqLog[i]
       /\ pc = "done" => exit_status = IF \E i \in DOMAIN acqLog : acqLog[i]
                                        THEN << 0 >> ELSE << -2 >> )

\* C6 witness: a run whose first acquisition succeeded and whose later ones failed
C6_Witness ==
  /\ Running({ MC_Read, MC_Read_Raw })
  /\ pc = "done"
  /\ acqLog = << TRUE, FALSE, FALSE >>
  /\ success
  /\ exit_status = << 0 >>

\* the interactive session is in its loop
InSession == Running({ MC_Interactive }) /\ pc \in { "prompt", "drain" }

\* the session has finished with the current operator line and waits for the next
LineDone == InSession /\ pc = "prompt" /\ line # << >> /\ stdin_rest = << >>

\* the hexadecimal value of an operator line, as strtoul reads it
LineValue(l) == strtoul(l, 16)

\* the line holds nothing but white space
IsBlankLine(l) == \A i \in DOMAIN l : isspace(l[i])

\* the line is a hexadecimal numeral followed by its newline
IsHexLine(l) ==
  /\ Len(l) >= 2
  /\ l[Len(l)] = NL
  /\ \A i \in 1..(Len(l) - 1) : DigitVal(l[i]) < 16

\* C7 (as claimed): an operator line whose hexadecimal value is outside 0-255
\* causes no write and no read, and the session reports a range error and
\* waits for the next line.
C7_OutOfRangeUntouched ==
  ( /\ InSession
    /\ IsHexLine(line)
    /\ ULAbove255(LineValue(line)) )
  => ( /\ lineWrites = << >>
       /\ lineReads = 0
       /\ pc = "prompt"
       /\ report.kind = "range_error" )

\* C8 (as claimed): a blank or white-space-only operator line causes no write
\* and no read, and the session waits for the next line.
C8_BlankLineUntouched ==
  ( /\ InSession
    /\ line # << >>
    /\ IsBlankLine(line) )
  => ( /\ lineWrites = << >>
       /\ lineReads = 0
       /\ pc = "prompt" )

\* C9 (as claimed): an operator line that is a hexadecimal numeral of value v
\* within 0-255 causes exactly one write call, of the byte v; no operator line
\* causes more than one write.
C9_OneByteOfValue ==
  InSession
  => ( /\ Len(lineWrites) <= 1
       /\ ( /\ LineDone
            /\ IsHexLine(line)
            /\ ~ULAbove255(LineValue(line)) )
          => ( /\ Len(lineWrites) = 1
               /\ lineWrites[1].byte = ToUint8(LineValue(line)) ) )

\* C10 (as claimed): when a drain has ended, "no response" is reported exactly
\* when no byte was collected, and otherwise the bytes rendered are the bytes
\* the positive reads returned, in arrival order.
C10_DrainRendersCollected ==
  ( /\ InSession
    /\ pc = "prompt"
    /\ report.kind \in { "dump", "no_response" } )
  => ( /\ report.kind = "no_response" <=> collected = << >>
       /\ report.kind = "dump" => report.bytes = collected )

\* the lines the session is to end on
QuitWords == { << "q", NL >>, << "q", "u", "i", "t", NL >> }

\* C11 (as claimed): the session is told to end by an operator line exactly
\* when that line is "q" or "quit"; every other line, also one that only
\* starts with "q", leaves it waiting for the next line; a session told to end
\* makes no further transport read or write.
C11_QuitOnlyOnQuitWords ==
  ( /\ Running({ MC_Interactive })
    /\ line # << >> )
  => ( /\ quit <=> line \in QuitWords
       /\ quit => pc # "drain"
       /\ quit => lineWrites = << >> /\ lineReads = 0 )

\* the upper-case letter of each lower-case letter
UpperOf ==
  [ c \in { LowerCase[i] : i \in DOMAIN LowerCase } |->
      UpperCase[CHOOSE i \in DOMAIN LowerCase : LowerCase[i] = c] ]

\* every casing of a lower-case name
RECURSIVE Casings(_)
Casings(name) ==
  IF name = << >> THEN { << >> }
  ELSE LET c == Head(name)
           heads == IF c \in DOMAIN UpperOf THEN { c, UpperOf[c] } ELSE { c }
       IN  { << h >> \o t : h \in heads, t \in Casings(Tail(name)) }

\* the name with every upper-case letter replaced by its lower-case letter
Lowered(s) == [ k \in 1..Len(s) |-> IF s[k] \in DOMAIN LowerOf THEN LowerOf[s[k]] ELSE s[k] ]

\* the CommandId a string is to resolve to: the index of the first registered
\* name it equals when case is ignored, MC_Num_Commands (not found) when none
Resolved(s) ==
  IF \E i \in DOMAIN commands : commands[i] = Lowered(s)
    THEN ( CHOOSE i \in DOMAIN commands :
             /\ commands[i] = Lowered(s)
             /\ \A j \in 1..(i - 1) : commands[j] # Lowered(s) ) - 1
    ELSE MC_Num_Commands

\* strings next to the registered names: every casing of each name, its proper
\* prefixes, and the name followed by one more character
NearNames ==
  UNION { Casings(commands[i]) : i \in DOMAIN commands } \cup
  UNION { { SubSeq(commands[i], 1, k) : k \in 0..(Len(commands[i]) - 1) } :
            i \in DOMAIN commands } \cup
  { commands[i] \o << c >> : i \in DOMAIN commands, c \in { "s", "-", " " } }

\* C12: every casing of a registered command name resolves to the index of
\* that name in the table, and every string that is not a registered name when
\* case is ignored (a proper prefix, a name with a character added) resolves to
\* not-found, on which main returns -1 without connecting; checked for the
\* strings next to the registered names and for the <command> argument of the run.
C12_LookupIgnoresCaseOnly ==
  /\ ( pc = "done" /\ argc < 3 )
       => \A s \in NearNames : LookupFrom(s, 0) = Resolved(s)
  /\ ( pc # "start" /\ argc >= 3 )
       => ( /\ cmd_idx = Resolved(argv2)
            /\ cmd_idx = MC_Num_Commands
                 => ( pc = "done" /\ exit_status = << -1 >> /\ ~connected ) )

\* C12 witness: the argument "PtC" has resolved to the PTC test
C12_Witness ==
  /\ argv2 = << "P", "t", "C" >>
  /\ cmd_idx = MC_PTC
  /\ pc = "connect"

\* the logs of the calls that use the transport, and what they store
transportLog == << connectLog, linked, response_buffer, readval, acqLog, probes,
                   actLog, lineWrites, lineReads, collected >>

\* C13: when main has returned, mems_disconnect was called exactly once if
\* mems_connect succeeded (also when the handshake or the command failed) and
\* not at all if it failed or was never called (usage, unknown command); and
\* no call that uses the transport is made after mems_disconnect.
C13_DisconnectOncePerConnect ==
  /\ []( /\ Len(connectLog) <= 1
         /\ pc = "done" => disconnects = IF connectLog = << TRUE >> THEN 1 ELSE 0
         /\ ( pc = "done" /\ ( argc < 3 \/ cmd_idx = MC_Num_Commands ) )
              => connectLog = << >>
         /\ disconnects # 0 => ~connected )
  /\ [][ disconnects # 0 => UNCHANGED transportLog ]_vars

\* C13 witness: a run whose connect succeeded and whose handshake failed has
\* ended with one disconnect
C13_Witness ==
  /\ pc = "done"
  /\ connectLog = << TRUE >>
  /\ ~linked
  /\ disconnects = 1
  /\ exit_status = << -2 >>

\* the outcome of the requested operation, read from the logs of its calls:
\* telemetry succeeded when some acquisition returned data, the position read
\* and the single-shot tests when their one call succeeded, an on/off test when
\* both probes succeeded, an IAC move when no probe failed, and the
\* interactive session when it was opened and ran until it was told to stop
OperationSucceeded ==
  /\ linked
  /\ CASE cmd_idx \in { MC_Read, MC_Read_Raw } ->
            \E i \in DOMAIN acqLog : acqLog[i]
       [] cmd_idx \in { MC_Read_IAC, MC_Coil, MC_Injectors } ->
            Len(actLog) = 1 /\ actLog[1].ok
       [] cmd_idx \in { MC_PTC, MC_FuelPump, MC_AC } ->
            Len(actLog) = 2 /\ actLog[1].ok /\ actLog[2].ok
       [] cmd_idx \in { MC_IAC_Close, MC_IAC_Open } ->
            probes > 0 /\ failedAt = 0
       [] cmd_idx = MC_Interactive ->
            report.kind # "alloc_error"
       [] OTHER -> FALSE

\* C14 (as claimed): for every recognized command, the interactive one
\* included, main returns 0 exactly when the operation succeeded and -2 when
\* it did not (connect, handshake or operation failure); an unrecognized
\* command returns -1; fewer than two positional arguments return 0.
C14_ExitStatusFollowsOutcome ==
  pc = "done"
  => exit_status =
       IF argc < 3 THEN << 0 >>
       ELSE IF cmd_idx = MC_Num_Commands THEN << -1 >>
       ELSE IF OperationSucceeded THEN << 0 >>
       ELSE << -2 >>

\* C15: in a close run the budget is 80 less the number of successful probes
\* that read position 0, so a successful non-zero reading leaves it unchanged
\* and a successful zero reading takes exactly 1 from it; it stays within
\* 0..80; after a successful non-zero reading the loop is still running; and
\* the loop has been left with success exactly when the budget is 0.
C15_BudgetCountsZeroReads ==
  Running({ MC_IAC_Close })
  => ( /\ iac_limit_count \in 0..IacLimitInit
       /\ iac_limit_count = IacLimitInit - zeroReads
       /\ ( probes > 0 /\ success /\ readval # 0 ) => pc = "iac_close"
       /\ ( Exited /\ success ) <=> iac_limit_count = 0 )

\* C15 witness: a close run of two successful non-zero readings and 80 zero
\* readings has ended with the budget used up
C15_Witness ==
  /\ Running({ MC_IAC_Close })
  /\ pc = "done"
  /\ probes = IacLimitInit + 2
  /\ zeroReads = IacLimitInit
  /\ failedAt = 0
  /\ iac_limit_count = 0
  /\ exit_status = << 0 >>

\* some command operation has been issued: a telemetry read, an actuator
\* probe or position read, or an interactive write or read
CommandIssued ==
  \/ acqLog # << >>
  \/ probes > 0
  \/ actLog # << >>
  \/ lineWrites # << >>
  \/ lineReads > 0

\* main is inside the switch or inside interactive_mode
InCommand ==
  pc \in { "read", "read_raw", "read_iac", "on", "dwell", "off", "fire", "iac_close",
           "iac_open", "interactive", "prompt", "drain", "i_return" }

\* C16: a command operation is issued, and main is inside a command, only
\* after mems_connect succeeded and then mems_init_link succeeded; a run whose
\* connect or handshake failed has issued no command operation and returns -2.
C16_CommandsOnlyWhenLinked ==
  /\ ( CommandIssued \/ InCommand ) => ( connectLog = << TRUE >> /\ linked )
  /\ linked => connectLog = << TRUE >>
  /\ ( connectLog # << >> /\ ~linked /\ pc \in { "disconnect", "cleanup", "done" } )
       => ( /\ ~CommandIssued
            /\ ~success
            /\ pc = "done" => exit_status = << -2 >> )

\* C16 witness: a run whose connect failed has ended with status -2 and no
\* command operation
C16_Witness ==
  /\ pc = "done"
  /\ connectLog = << FALSE >>
  /\ ~CommandIssued
  /\ disconnects = 0
  /\ exit_status = << -2 >>

\* C17: when the write of a command byte did not return 1, no read is made
\* for that command, the write error is reported, and the session is back at
\* its prompt, not told to quit, ready for the next line.  Stated for operator
\* lines that fgets returns whole (the line is one command), and, for every
\* line, as: no read has been made while every write of the line has failed.
C17_FailedWriteNoRead ==
  InSession
  => ( /\ ( \A i \in DOMAIN lineWrites : lineWrites[i].n # 1 ) => lineReads = 0
       /\ ( /\ Len(line) < icmd_size
            /\ lineWrites # << >>
            /\ lineWrites[1].n # 1 )
          => ( /\ Len(lineWrites) = 1
               /\ pc = "prompt"
               /\ ~quit
               /\ report.kind = "write_error"
               /\ ENABLED Command ) )

\* C17 witness: the write of byte 0x0f for the line "f" returned 0
C17_Witness ==
  /\ InSession
  /\ line = << "f", NL >>
  /\ lineWrites = << [ byte |-> 15, n |-> 0 ] >>
  /\ lineReads = 0
  /\ report.kind = "write_error"
  /\ pc = "prompt"

\* the loop-count argument is a numeral: digits only
IsNumeral(arg) ==
  /\ arg # << >>
  /\ \A i \in DOMAIN arg : arg[i] \in { "0","1","2","3","4","5","6","7","8","9" }

\* the unsigned long whose value is the int n; no unsigned long when n < 0
ULOfInt(n) == IF n >= 0 THEN << n % Limb, n \div Limb, 0, 0 >> ELSE << >>

\* C18 (as claimed): when the loop-count argument is a numeral, of value N as
\* the parser reads it, the counter of a telemetry run starts at N, not
\* negative, also for N >= 2^31, and the loop has made exactly N acquisition
\* attempts when it ends; without the argument the counter starts at 1.
C18_CounterStartsAtN ==
  ( pc # "start" /\ cmd_idx \in { MC_Read, MC_Read_Raw } )
  => ( /\ ( argc >= 4 /\ IsNumeral(argv3) )
          => ( /\ pc = "connect"
                    => ( /\ read_loop_count >= 0
                         /\ ULOfInt(read_loop_count) = strtoul(argv3, 0) )
               /\ ( linked /\ Exited )
                    => ULOfInt(Len(acqLog)) = strtoul(argv3, 0) )
       /\ ( argc < 4 /\ pc = "connect" ) => read_loop_count = 1 )

\* C19 (as claimed): while a drain is under way the offset at which the next
\* read stores its byte is the number of bytes stored for this command, so it
\* restarts at 0 with each command, and it lies within 0..16383; no byte is
\* stored at or beyond the 16384 bytes of the buffer.
C19_OffsetWithinBuffer ==
  InSession
  => ( /\ pc = "drain"
            => ( /\ total_bytes_read = Len(collected)
                 /\ total_bytes_read \in 0..(ResponseBufferSize - 1) )
       /\ Len(response_buffer) <= ResponseBufferSize )

\* C20 (as claimed): every probe call returning, an IAC close or open run
\* that has entered its loop eventually leaves it, whatever the probes answer,
\* so the number of probes is bounded; also when every probe succeeds and none
\* reads position 0 (close) or a position of 0xB4 or more (open).
C20_LoopsTerminate ==
  Running({ MC_IAC_Close, MC_IAC_Open }) ~> Exited

=============================================================================
